---------------------------- MODULE Spec2Model ----------------------------
(***************************************************************************)
(* State-machine model of apps/airbnb_mgmt/airbnb_mgmt.py: the AppDaemon   *)
(* app AirbnbManagement.  A poll (check_mgmt) classifies the two Rental    *)
(* Control calendar events and runs four guarded actions; the guard is a   *)
(* shelve database mapping a key to the last date the action ran.          *)
(*                                                                         *)
(* A poll is modelled statement by statement: one step for each guard      *)
(* test, each service call and each guard write, so that the clock, the    *)
(* user, a crash or another poll can act between any two of them.  The     *)
(* condition of one `if` (its time test and its guard test) is evaluated   *)
(* in one step.  A write to the shelve is on disk when the assignment      *)
(* returns.                                                                *)
(***************************************************************************)
EXTENDS Integers, Sequences, FiniteSets, TLC

(***************************************************************************)
(* Bounds of the model.                                                    *)
(***************************************************************************)
\* The days run from 1 to MaxDay (day 0 is "yesterday" of the first day).
MaxDay == 2
\* Timestamps of door-lock history entries are 1..MaxStamp.
MaxStamp == 2
\* The door-lock history holds at most MaxHist entries.
MaxHist == 2
\* Failed service calls, crashes and overlapping callbacks, together, per
\* behaviour.
MaxFaults == 1

(***************************************************************************)
(* Values.                                                                 *)
(***************************************************************************)
\* Python's None, where the other values are strings (event names).
None == "None"
\* Python's None, where the other values are timestamps (1..MaxStamp).
NoStamp == 0

Time(h, m, s) == [hour |-> h, minute |-> m, second |-> s]

\* initialize(): the configured times of day (the defaults of args.get).
default_checkin_time == Time(16, 0, 0)
checkout_time == Time(11, 0, 0)
cleaner_check_time == Time(14, 0, 0)

\* The minutes hvac_on compares the remaining time with.
PrecoolMinutes == 30

\* The polls that may be in flight.  Poll 1 is the scheduler's callback; poll 2
\* only runs in the specification of two concurrent polls.
Procs == {1, 2}

\* The guard keys (db_key of the four actions).
Keys == {"last_checkin_reset", "last_hvac_off", "last_cleaner_check", "last_hvac_on"}

\* The external side effects (service calls; the two notifications go to the
\* same service with different targets).
Services == {"input_datetime/set_datetime", "climate/turn_off",
             "notify/page", "notify/sms", "climate/set_temperature"}

\* The wall-clock instants the model observes, in order, within one day.
SampleTimes == <<Time(9, 45, 0), Time(11, 0, 0), Time(11, 0, 30),
                 Time(14, 0, 30), Time(15, 30, 59), Time(15, 31, 0)>>

\* The values a user gives the check-in-time input entity.
CheckinChoices == {Time(10, 0, 0), Time(16, 0, 0)}

Days == 1..MaxDay
\* The dates a calendar event can carry when it is read on day tdy: the day
\* before, the day itself and the day after (the classifier only compares a
\* date with today).
CalDates(tdy) == (tdy - 1)..(tdy + 1)

VARIABLES
  today,          \* date.today()
  now,            \* datetime.now().time(), as an index into SampleTimes
  due,            \* the scheduler's interval has elapsed: a poll may start
  db,             \* self.db: the shelve, a mapping from the keys present to dates
  checkin_input,  \* state of input_datetime.str_<code>_checkin_time
  fired,          \* ghost: how often each side effect was issued on the current day
  faults,         \* ghost: failed calls, crashes and overlapping callbacks so far
  pc,             \* per poll: the statement it is at
  frame,          \* per poll: the local variables of check_mgmt and its callees
  log,            \* per poll, ghost: guard reads/writes, calls and log lines of the poll
  raised          \* per poll, ghost: the exception that ended the poll, or None

vars == <<today, now, due, db, checkin_input, fired, faults, pc, frame, log, raised>>

(***************************************************************************)
(* Pure functions of the source.                                           *)
(***************************************************************************)
\* time.__gt__: hour, minute and second compared in that order.
TimeGT(a, b) ==
  \/ a.hour > b.hour
  \/ a.hour = b.hour /\ a.minute > b.minute
  \/ a.hour = b.hour /\ a.minute = b.minute /\ a.second > b.second

\* int(x / 60): Python's int() truncates towards zero.
IntDiv60(x) == IF x >= 0 THEN x \div 60 ELSE 0 - ((0 - x) \div 60)

\* A subtraction that wraps around midnight: the minutes until time1 comes next.
sub_time_wrapped(time1, time2) ==
  (((time1.hour - time2.hour) * 60 + (time1.minute - time2.minute)) + 1440) % 1440

\* _sub_time: the hours and the minutes are subtracted, the seconds are not used.
sub_time(time1, time2) ==
  IntDiv60((time1.hour - time2.hour) * 3600 + (time1.minute - time2.minute) * 60)

\* A guard test that only asks whether the action has ever run.
db_is_today_ever(store, key, tdy) == key \in DOMAIN store

\* _db_is_today: self.db.get(key) == date.today(); a missing key gives None.
db_is_today(store, key, tdy) == key \in DOMAIN store /\ store[key] = tdy

\* A guard write that keeps the record of a key that is already present.
db_set_today_if_absent(store, key, tdy) ==
  IF key \in DOMAIN store THEN store
  ELSE [k \in (DOMAIN store) \cup {key} |-> IF k = key THEN tdy ELSE store[k]]

\* _db_set_today: self.db[key] = date.today().
db_set_today(store, key, tdy) ==
  [k \in (DOMAIN store) \cup {key} |-> IF k = key THEN tdy ELSE store[k]]

\* A sensor attribute as get_state returns it: no state (None), a string that
\* is no ISO datetime, or an ISO datetime (its date and its hour).
Attr(kind, d, h) == [kind |-> kind, date |-> d, hour |-> h]
Iso(d, h) == Attr("iso", d, h)
NoState == Attr("none", 0, 0)
Garbage == Attr("garbage", 0, 0)

\* A parser that returns a default datetime for a missing or malformed state.
get_state_datetime_or_default(state) ==
  IF state.kind # "iso" THEN [raise |-> None, date |-> 0, hour |-> 0]
  ELSE [raise |-> None, date |-> state.date, hour |-> state.hour]

\* _get_state_datetime: assert isinstance(state, str); datetime.fromisoformat.
get_state_datetime(state) ==
  IF state.kind = "none" THEN [raise |-> "AssertionError", date |-> 0, hour |-> 0]
  ELSE IF state.kind # "iso" THEN [raise |-> "ValueError", date |-> 0, hour |-> 0]
  ELSE [raise |-> None, date |-> state.date, hour |-> state.hour]

EventName(i) == IF i = 0 THEN "sensor.rental_control_event_0"
                ELSE "sensor.rental_control_event_1"

\* A classifier that prefers the earlier slot for the check-in of today.
checkin_today_earlier(evs, tdy) ==
  IF evs[0].start_date = tdy THEN evs[0].name
  ELSE IF evs[1].start_date = tdy THEN evs[1].name
  ELSE None

\* _get_rental_events, "Checkin Today".
checkin_today(evs, tdy) ==
  IF evs[1].start_date = tdy THEN evs[1].name
  ELSE IF evs[0].start_date = tdy THEN evs[0].name
  ELSE None

\* A classifier for which a reservation is active only until its end date.
checkin_active_until_end(evs, tdy) ==
  IF evs[1].start_date <= tdy /\ tdy <= evs[1].end_date THEN evs[1].name
  ELSE IF evs[0].start_date <= tdy /\ tdy <= evs[0].end_date THEN evs[0].name
  ELSE None

\* _get_rental_events, "Active Checkin".
checkin_active(evs, tdy) ==
  IF evs[1].start_date <= tdy THEN evs[1].name
  ELSE IF evs[0].start_date <= tdy THEN evs[0].name
  ELSE None

\* A classifier that reports whichever slot ends today as the checkout.
checkout_today_either(evs, tdy) ==
  IF evs[0].end_date = tdy THEN evs[0].name
  ELSE IF evs[1].end_date = tdy THEN evs[1].name
  ELSE None

\* _get_rental_events, "Checkout Today".
checkout_today(evs, tdy) ==
  IF evs[0].end_date = tdy THEN evs[0].name ELSE None

\* _get_rental_events, the returned dictionary.
classify(evs, tdy) ==
  [checkin_today_evt |-> checkin_today(evs, tdy),
   checkin_active_evt |-> checkin_active(evs, tdy),
   checkout_today_evt |-> checkout_today(evs, tdy)]

\* _get_rental_events, the loop reading the four attributes in order: the
\* first one that cannot be read raises.
read_events(cal) ==
  LET s0 == get_state_datetime(cal[0].start)
      e0 == get_state_datetime(cal[0].end)
      s1 == get_state_datetime(cal[1].start)
      e1 == get_state_datetime(cal[1].end)
      bad == IF s0.raise # None THEN s0.raise
             ELSE IF e0.raise # None THEN e0.raise
             ELSE IF s1.raise # None THEN s1.raise
             ELSE e1.raise
  IN [raise |-> bad,
      events |-> [i \in {0, 1} |->
                    [name |-> EventName(i),
                     start_date |-> IF i = 0 THEN s0.date ELSE s1.date,
                     end_date |-> IF i = 0 THEN e0.date ELSE e1.date]]]

\* An alert also when the guest and the cleaner unlocked at the same instant.
guest_after_cleaner_or_equal(ut) == ut.guest_unlock >= ut.cleaner_unlock

\* cleaner_alert: "if unlock_times['guest_unlock'] > unlock_times['cleaner_unlock']".
guest_after_cleaner(ut) == ut.guest_unlock > ut.cleaner_unlock

\* The state labels of the door-lock history, and the two patterns.
CleanerLabel == "Maria Reno cleaning fairies"
GuestLabel == "05/12 Guest"
OtherLabel == "Manual unlock"
cleaner_re(state) == state = CleanerLabel
guest_re(state) == state = GuestLabel

\* _get_last_unlocks, the loop over reversed(unlocks[0]): from entry i down.
RECURSIVE scan_unlocks(_, _, _, _)
scan_unlocks(hist, i, cleaner_unlock, guest_unlock) ==
  IF i = 0 THEN [cleaner_unlock |-> cleaner_unlock, guest_unlock |-> guest_unlock]
  ELSE scan_unlocks(hist, i - 1,
         IF cleaner_unlock = NoStamp /\ cleaner_re(hist[i].state)
           THEN hist[i].last_changed ELSE cleaner_unlock,
         IF guest_unlock = NoStamp /\ guest_re(hist[i].state)
           THEN hist[i].last_changed ELSE guest_unlock)

\* _get_last_unlocks on what get_history returned: the assertion on an empty
\* list, otherwise the scan of unlocks[0] (the first element of the list).
get_last_unlocks(unlocks) ==
  IF unlocks = <<>>
    THEN [raise |-> "AssertionError",
          unlock_times |-> [cleaner_unlock |-> NoStamp, guest_unlock |-> NoStamp]]
    ELSE [raise |-> None,
          unlock_times |-> scan_unlocks(unlocks[1], Len(unlocks[1]), NoStamp, NoStamp)]

(***************************************************************************)
(* The inputs the environment can give.                                    *)
(***************************************************************************)
\* A reservation: it starts at check-in hour and ends at checkout hour.
Reservations(tdy) == {r \in [start : {Iso(d, 16) : d \in CalDates(tdy)},
                             end : {Iso(d, 11) : d \in CalDates(tdy)}] :
                        r.start.date <= r.end.date}

\* What the two calendar sensors can show: two reservations, or two
\* reservations with one attribute missing or unparsable.
GoodCalendars(tdy) == [{0, 1} -> Reservations(tdy)]
BaseCalendar == [i \in {0, 1} |-> [start |-> Iso(0, 16), end |-> Iso(1, 11)]]
BadCalendars ==
  {[BaseCalendar EXCEPT ![i].start = b] : i \in {0, 1}, b \in {NoState, Garbage}}
  \cup {[BaseCalendar EXCEPT ![i].end = b] : i \in {0, 1}, b \in {NoState, Garbage}}
CalendarStates(tdy) == GoodCalendars(tdy) \cup BadCalendars

\* All four attributes of the calendar sensors hold an ISO datetime.  The poll's
\* log records the read of a state that does not.
Readable(cal) ==
  \A i \in {0, 1} : cal[i].start.kind = "iso" /\ cal[i].end.kind = "iso"
Unreadable == <<"get_state", "unreadable">>

\* Door-lock histories: chronological lists of at most MaxHist entries.
HistEntries == [state : {CleanerLabel, GuestLabel, OtherLabel},
                last_changed : 1..MaxStamp]
Histories ==
  {h \in UNION {[1..n -> HistEntries] : n \in 0..MaxHist} :
     \A i \in 1..(Len(h) - 1) : h[i].last_changed <= h[i + 1].last_changed}
\* get_history returns a list holding one history; an empty list is possible.
HistoryResults == {<<>>} \cup {<<h>> : h \in Histories}
\* What _get_last_unlocks can return or raise, over all those results.
UnlockResults == {get_last_unlocks(u) : u \in HistoryResults}

(***************************************************************************)
(* Initial state: initialize() has run for the first time, on day 1, and   *)
(* shelve.open has created an empty database.                              *)
(***************************************************************************)
NoEvents == [i \in {0, 1} |-> [name |-> None, start_date |-> 0, end_date |-> 0]]
NoRental == [checkin_today_evt |-> None, checkin_active_evt |-> None,
             checkout_today_evt |-> None]
NoUnlocks == [cleaner_unlock |-> NoStamp, guest_unlock |-> NoStamp]
NoFrame == [events |-> NoEvents, today |-> 0, rental_events |-> NoRental,
            unlock_times |-> NoUnlocks, checkin_time |-> Time(0, 0, 0)]

Init ==
  /\ today = 1
  /\ now = 1
  /\ due = TRUE
  /\ db = <<>>
  /\ checkin_input \in CheckinChoices
  /\ fired = [s \in Services |-> 0]
  /\ faults = 0
  /\ pc = [p \in Procs |-> "idle"]
  /\ frame = [p \in Procs |-> NoFrame]
  /\ log = [p \in Procs |-> <<>>]
  /\ raised = [p \in Procs |-> None]

(***************************************************************************)
(* Control flow of check_mgmt.                                             *)
(***************************************************************************)
\* check_mgmt after hvac_off: "if rental_events['checkin_today_evt']".
AfterCheckout(re) ==
  IF re.checkin_today_evt # None THEN "cleaner_alert" ELSE "idle"

\* A check_mgmt that runs the checkout action after the check-in actions.
AfterHvacOnThenOff(re) ==
  IF re.checkout_today_evt # None THEN "hvac_off" ELSE "idle"

\* check_mgmt after hvac_on: the last statement, the callback returns.
AfterHvacOn(re) == "idle"

\* A check_mgmt that calls hvac_off whatever the classifier found.
AfterResetAlways(re) == "hvac_off"

\* check_mgmt after reset_checkin_time: "if rental_events['checkout_today_evt']".
AfterReset(re) ==
  IF re.checkout_today_evt # None THEN "hvac_off" ELSE AfterCheckout(re)

\* Poll p goes on at statement `next` with the local variables fr; when the
\* poll returns, its local variables are gone.
Goto(p, next, fr) ==
  /\ pc' = [pc EXCEPT ![p] = next]
  /\ frame' = [frame EXCEPT ![p] = IF next = "idle" THEN NoFrame ELSE fr]

\* Poll p ends with exception exc, which propagates out of check_mgmt.
Raise(p, exc) ==
  /\ Goto(p, "idle", NoFrame)
  /\ raised' = [raised EXCEPT ![p] = exc]

Logged(p, entry) == log' = [log EXCEPT ![p] = Append(@, entry)]

\* self.call_service(svc, ...) returns: the side effect has happened.
CallService(p, svc) ==
  /\ fired' = [fired EXCEPT ![svc] = @ + 1]
  /\ Logged(p, <<"call", svc>>)

(***************************************************************************)
(* The scheduler and check_mgmt.                                           *)
(***************************************************************************)
\* run_every fires the callback: check_mgmt begins.
PollStart(p) ==
  /\ pc[p] = "idle"
  /\ due
  /\ due' = FALSE
  /\ pc' = [pc EXCEPT ![p] = "get_rental_events"]
  /\ log' = [log EXCEPT ![p] = <<>>]
  /\ raised' = [raised EXCEPT ![p] = None]
  /\ UNCHANGED <<today, now, db, checkin_input, fired, faults, frame>>

\* _get_rental_events: today is read once, then the four attributes, then the
\* three events are classified against that one value of today.
GetRentalEvents(p) ==
  /\ pc[p] = "get_rental_events"
  /\ \E cal \in CalendarStates(today) :
       LET r == read_events(cal) IN
       /\ IF Readable(cal) THEN UNCHANGED log ELSE Logged(p, Unreadable)
       /\ IF r.raise # None
            THEN Raise(p, r.raise)
            ELSE /\ Goto(p, "reset_checkin_time",
                         [frame[p] EXCEPT !.events = r.events,
                                          !.today = today,
                                          !.rental_events = classify(r.events, today)])
                 /\ UNCHANGED raised
  /\ UNCHANGED <<today, now, due, db, checkin_input, fired, faults>>

(***************************************************************************)
(* reset_checkin_time.                                                     *)
(***************************************************************************)
\* A reset that is skipped on a day without a check-in.
ResetIfOnCheckin(p) ==
  /\ pc[p] = "reset_checkin_time"
  /\ Logged(p, <<"read", "last_checkin_reset">>)
  /\ LET fr == [frame[p] EXCEPT !.events = NoEvents] IN
     IF \/ db_is_today(db, "last_checkin_reset", today)
        \/ fr.rental_events.checkin_today_evt = None
       THEN Goto(p, AfterReset(fr.rental_events), fr)
       ELSE Goto(p, "reset_call", fr)
  /\ UNCHANGED <<today, now, due, db, checkin_input, fired, faults, raised>>

\* "if not self._db_is_today(db_key)".
ResetIf(p) ==
  /\ pc[p] = "reset_checkin_time"
  /\ Logged(p, <<"read", "last_checkin_reset">>)
  /\ LET fr == [frame[p] EXCEPT !.events = NoEvents] IN
     IF db_is_today(db, "last_checkin_reset", today)
       THEN Goto(p, AfterReset(fr.rental_events), fr)
       ELSE Goto(p, "reset_call", fr)
  /\ UNCHANGED <<today, now, due, db, checkin_input, fired, faults, raised>>

\* call_service('input_datetime/set_datetime', time = default_checkin_time).
ResetCall(p) ==
  /\ pc[p] = "reset_call"
  /\ CallService(p, "input_datetime/set_datetime")
  /\ checkin_input' = default_checkin_time
  /\ Goto(p, "reset_set", frame[p])
  /\ UNCHANGED <<today, now, due, db, faults, raised>>

\* self._db_set_today(db_key), and the return to check_mgmt.
ResetSet(p) ==
  /\ pc[p] = "reset_set"
  /\ db' = db_set_today(db, "last_checkin_reset", today)
  /\ Logged(p, <<"write", "last_checkin_reset">>)
  /\ Goto(p, AfterReset(frame[p].rental_events), frame[p])
  /\ UNCHANGED <<today, now, due, checkin_input, fired, faults, raised>>

(***************************************************************************)
(* hvac_off.                                                               *)
(***************************************************************************)
\* "if (datetime.now().time() > self.checkout_time and not self._db_is_today(db_key))":
\* the guard is read only when the time test succeeds.
HvacOffIf(p) ==
  /\ pc[p] = "hvac_off"
  /\ IF TimeGT(SampleTimes[now], checkout_time)
       THEN /\ Logged(p, <<"read", "last_hvac_off">>)
            /\ IF db_is_today(db, "last_hvac_off", today)
                 THEN Goto(p, AfterCheckout(frame[p].rental_events), frame[p])
                 ELSE Goto(p, "hvac_off_call", frame[p])
       ELSE /\ UNCHANGED log
            /\ Goto(p, AfterCheckout(frame[p].rental_events), frame[p])
  /\ UNCHANGED <<today, now, due, db, checkin_input, fired, faults, raised>>

\* call_service('climate/turn_off').
HvacOffCall(p) ==
  /\ pc[p] = "hvac_off_call"
  /\ CallService(p, "climate/turn_off")
  /\ Goto(p, "hvac_off_set", frame[p])
  /\ UNCHANGED <<today, now, due, db, checkin_input, faults, raised>>

\* self._db_set_today(db_key), and the return to check_mgmt.
HvacOffSet(p) ==
  /\ pc[p] = "hvac_off_set"
  /\ db' = db_set_today(db, "last_hvac_off", today)
  /\ Logged(p, <<"write", "last_hvac_off">>)
  /\ Goto(p, AfterCheckout(frame[p].rental_events), frame[p])
  /\ UNCHANGED <<today, now, due, checkin_input, fired, faults, raised>>

(***************************************************************************)
(* cleaner_alert.                                                          *)
(***************************************************************************)
\* "if (datetime.now().time() > self.cleaner_check_time
\*      and not self._db_is_today(db_key))".
CleanerIf(p) ==
  /\ pc[p] = "cleaner_alert"
  /\ IF TimeGT(SampleTimes[now], cleaner_check_time)
       THEN /\ Logged(p, <<"read", "last_cleaner_check">>)
            /\ IF db_is_today(db, "last_cleaner_check", today)
                 THEN Goto(p, "hvac_on", frame[p])
                 ELSE Goto(p, "get_last_unlocks", frame[p])
       ELSE /\ UNCHANGED log
            /\ Goto(p, "hvac_on", frame[p])
  /\ UNCHANGED <<today, now, due, db, checkin_input, fired, faults, raised>>

\* unlock_times = self._get_last_unlocks(), the error line, the assertion
\* and the comparison of the two timestamps.
GetLastUnlocks(p) ==
  /\ pc[p] = "get_last_unlocks"
  /\ \E r \in UnlockResults :
       IF r.raise # None
         THEN \* _get_last_unlocks: assert unlocks
              /\ Raise(p, r.raise)
              /\ UNCHANGED log
         ELSE LET ut == r.unlock_times IN
              IF ut.cleaner_unlock = NoStamp \/ ut.guest_unlock = NoStamp
                THEN \* self.error(...), then the assert fails
                     /\ Logged(p, <<"error", "Could not determine last unlock times">>)
                     /\ Raise(p, "AssertionError")
                ELSE /\ UNCHANGED raised
                     /\ IF guest_after_cleaner(ut)
                          THEN /\ Logged(p, <<"log", "ALERT">>)
                               /\ Goto(p, "notify_page",
                                       [frame[p] EXCEPT !.unlock_times = ut])
                          ELSE /\ Logged(p, <<"log", "OK">>)
                               /\ Goto(p, "cleaner_set",
                                       [frame[p] EXCEPT !.unlock_times = ut])
  /\ UNCHANGED <<today, now, due, db, checkin_input, fired, faults>>

\* "Send page email": the first call_service('notify/mail_page_amzn').
NotifyPage(p) ==
  /\ pc[p] = "notify_page"
  /\ CallService(p, "notify/page")
  /\ Goto(p, "notify_sms", frame[p])
  /\ UNCHANGED <<today, now, due, db, checkin_input, faults, raised>>

\* "Send Maria SMS": the second call_service('notify/mail_page_amzn').
NotifySms(p) ==
  /\ pc[p] = "notify_sms"
  /\ CallService(p, "notify/sms")
  /\ Goto(p, "cleaner_set", frame[p])
  /\ UNCHANGED <<today, now, due, db, checkin_input, faults, raised>>

\* self._db_set_today(db_key), and the return to check_mgmt, which calls hvac_on.
CleanerSet(p) ==
  /\ pc[p] = "cleaner_set"
  /\ db' = db_set_today(db, "last_cleaner_check", today)
  /\ Logged(p, <<"write", "last_cleaner_check">>)
  /\ Goto(p, "hvac_on", [frame[p] EXCEPT !.unlock_times = NoUnlocks])
  /\ UNCHANGED <<today, now, due, checkin_input, fired, faults, raised>>

(***************************************************************************)
(* hvac_on.                                                                *)
(***************************************************************************)
\* checkin_time = time.fromisoformat(str(self.get_state(entity_key))).
HvacOnRead(p) ==
  /\ pc[p] = "hvac_on"
  /\ Goto(p, "hvac_on_if", [frame[p] EXCEPT !.checkin_time = checkin_input])
  /\ UNCHANGED <<today, now, due, db, checkin_input, fired, faults, log, raised>>

\* "if (self._sub_time(checkin_time, datetime.now().time()) < 30
\*      and not self._db_is_today(db_key))".
HvacOnIf(p) ==
  /\ pc[p] = "hvac_on_if"
  /\ IF sub_time(frame[p].checkin_time, SampleTimes[now]) < PrecoolMinutes
       THEN /\ Logged(p, <<"read", "last_hvac_on">>)
            /\ IF db_is_today(db, "last_hvac_on", today)
                 THEN Goto(p, AfterHvacOn(frame[p].rental_events), frame[p])
                 ELSE Goto(p, "hvac_on_call", frame[p])
       ELSE /\ UNCHANGED log
            /\ Goto(p, AfterHvacOn(frame[p].rental_events), frame[p])
  /\ UNCHANGED <<today, now, due, db, checkin_input, fired, faults, raised>>

\* call_service('climate/set_temperature', hvac_mode='cool', temperature=23).
HvacOnCall(p) ==
  /\ pc[p] = "hvac_on_call"
  /\ CallService(p, "climate/set_temperature")
  /\ Goto(p, "hvac_on_set", frame[p])
  /\ UNCHANGED <<today, now, due, db, checkin_input, faults, raised>>

\* An hvac_on that marks the key of hvac_off.
HvacOnSetOtherKey(p) ==
  /\ pc[p] = "hvac_on_set"
  /\ db' = db_set_today(db, "last_hvac_off", today)
  /\ Logged(p, <<"write", "last_hvac_on">>)
  /\ Goto(p, AfterHvacOn(frame[p].rental_events), frame[p])
  /\ UNCHANGED <<today, now, due, checkin_input, fired, faults, raised>>

\* self._db_set_today(db_key), and the return.
HvacOnSet(p) ==
  /\ pc[p] = "hvac_on_set"
  /\ db' = db_set_today(db, "last_hvac_on", today)
  /\ Logged(p, <<"write", "last_hvac_on">>)
  /\ Goto(p, AfterHvacOn(frame[p].rental_events), frame[p])
  /\ UNCHANGED <<today, now, due, checkin_input, fired, faults, raised>>

(***************************************************************************)
(* The environment.                                                        *)
(***************************************************************************)
\* The clock moves to the next observed instant; after the last one of a day
\* the date advances.  The scheduler's interval has then elapsed.
Tick ==
  /\ IF now < Len(SampleTimes)
       THEN /\ now' = now + 1
            /\ UNCHANGED <<today, fired>>
       ELSE /\ today < MaxDay
            /\ now' = 1
            /\ today' = today + 1
            /\ fired' = [s \in Services |-> 0]
  /\ due' = TRUE
  /\ UNCHANGED <<db, checkin_input, faults, pc, frame, log, raised>>

\* A guest or the operator sets today's check-in time.
SetCheckinTime ==
  /\ \E t \in CheckinChoices \ {checkin_input} : checkin_input' = t
  /\ UNCHANGED <<today, now, due, db, fired, faults, pc, frame, log, raised>>

\* The statements of poll p that call a service.
CallSites == {"reset_call", "hvac_off_call", "notify_page", "notify_sms", "hvac_on_call"}

\* A call_service whose failure is retried within the poll.
CallFailsRetried(p) ==
  /\ pc[p] \in CallSites
  /\ faults < MaxFaults
  /\ faults' = faults + 1
  /\ Logged(p, <<"failed", pc[p]>>)
  /\ UNCHANGED <<today, now, due, db, checkin_input, fired, pc, frame, raised>>

\* A service call raises instead of returning: the exception is not caught
\* anywhere in the app and ends the poll.
CallFails(p) ==
  /\ pc[p] \in CallSites
  /\ faults < MaxFaults
  /\ faults' = faults + 1
  /\ Logged(p, <<"failed", pc[p]>>)
  /\ Raise(p, "ServiceError")
  /\ UNCHANGED <<today, now, due, db, checkin_input, fired>>

\* The process dies at any point and AppDaemon starts the app again:
\* initialize() reopens the shelve, whose completed writes are on disk, and
\* run_every schedules check_mgmt anew.
Crash ==
  /\ faults < MaxFaults
  /\ faults' = faults + 1
  /\ pc' = [p \in Procs |-> "idle"]
  /\ frame' = [p \in Procs |-> NoFrame]
  /\ raised' = [p \in Procs |-> None]
  /\ log' = [p \in Procs |-> <<>>]
  /\ due' = TRUE
  /\ UNCHANGED <<today, now, db, checkin_input, fired>>

\* terminate() then initialize() between two polls: the shelve is closed and
\* reopened, and run_every schedules check_mgmt anew.
Restart ==
  /\ \A p \in Procs : pc[p] = "idle"
  /\ ~due
  /\ due' = TRUE
  /\ log' = [p \in Procs |-> <<>>]
  /\ raised' = [p \in Procs |-> None]
  /\ UNCHANGED <<today, now, db, checkin_input, fired, faults, pc, frame>>

(***************************************************************************)
(* Specifications.                                                         *)
(***************************************************************************)
\* One statement of poll p.
\* The statements of a poll in flight.
Run(p) ==
  \/ GetRentalEvents(p)
  \/ ResetIf(p)
  \/ ResetCall(p)
  \/ ResetSet(p)
  \/ HvacOffIf(p)
  \/ HvacOffCall(p)
  \/ HvacOffSet(p)
  \/ CleanerIf(p)
  \/ GetLastUnlocks(p)
  \/ NotifyPage(p)
  \/ NotifySms(p)
  \/ CleanerSet(p)
  \/ HvacOnRead(p)
  \/ HvacOnIf(p)
  \/ HvacOnCall(p)
  \/ HvacOnSet(p)

Step(p) ==
  \/ PollStart(p)
  \/ Run(p)

\* Single-flight polling, as AppDaemon schedules the callbacks of one app;
\* every service call returns.
Next ==
  \/ Step(1)
  \/ Tick
  \/ SetCheckinTime

Spec == Init /\ [][Next]_vars

\* Single-flight polling where a service call may raise.
NextFail ==
  \/ Step(1)
  \/ Tick
  \/ SetCheckinTime
  \/ CallFails(1)

SpecFail == Init /\ [][NextFail]_vars

\* Single-flight polling where the process may crash or be restarted.
NextCrash ==
  \/ Step(1)
  \/ Tick
  \/ SetCheckinTime
  \/ Crash
  \/ Restart

SpecCrash == Init /\ [][NextCrash]_vars

\* Two polls of the unit in flight at once: a second callback starts as poll
\* p while another poll is still running.
PollOverlap(p) ==
  /\ pc[p] = "idle"
  /\ \E q \in Procs \ {p} : pc[q] # "idle"
  /\ faults < MaxFaults
  /\ faults' = faults + 1
  /\ pc' = [pc EXCEPT ![p] = "get_rental_events"]
  /\ log' = [log EXCEPT ![p] = <<>>]
  /\ raised' = [raised EXCEPT ![p] = None]
  /\ UNCHANGED <<today, now, due, db, checkin_input, fired, frame>>

\* The clock as overlapping polls see it: the polls are short, the time of day
\* and the date advance between them.
TickIdle ==
  /\ \A p \in Procs : pc[p] = "idle"
  /\ Tick

\* Concurrent polls.  Every step is atomic, the guard reads and writes
\* included: the guard store serialises the accesses to a key.
NextConc ==
  \/ Step(1)
  \/ PollOverlap(2)
  \/ Run(2)
  \/ TickIdle

SpecConc == Init /\ [][NextConc]_vars

(***************************************************************************)
(* What the properties below speak of.                                     *)
(***************************************************************************)
\* Poll p takes a step.
Moves(p) == pc'[p] # pc[p]

\* Poll p tests the guard of key k in this step.
Reads(p, k) == log'[p] = Append(log[p], <<"read", k>>)

\* Side effect s is issued in this step.
Fires(s) == fired'[s] = fired[s] + 1

\* The statement that issues the (first) side effect guarded by key k, and the
\* statement that writes key k.
CallSite(k) == CASE k = "last_checkin_reset" -> "reset_call"
                 [] k = "last_hvac_off" -> "hvac_off_call"
                 [] k = "last_cleaner_check" -> "get_last_unlocks"
                 [] k = "last_hvac_on" -> "hvac_on_call"
WriteSite(k) == CASE k = "last_checkin_reset" -> "reset_set"
                  [] k = "last_hvac_off" -> "hvac_off_set"
                  [] k = "last_cleaner_check" -> "cleaner_set"
                  [] k = "last_hvac_on" -> "hvac_on_set"

\* The record of key k, as a set: empty when the key is missing.
Record(k) == {db[x] : x \in (DOMAIN db) \cap {k}}

(***************************************************************************)
(* C1.  Within one calendar day each side effect is issued at most once,   *)
(* however many polls run: the count of every service call of the current  *)
(* day never exceeds one.  Stated for polls whose service calls may raise  *)
(* (SpecFail).                                                             *)
(***************************************************************************)
C1_AtMostOncePerDay == \A s \in Services : fired[s] <= 1

(***************************************************************************)
(* C2.  Once a side effect has been issued on the current day it is not    *)
(* issued again on that day, also when the process crashes at any point of *)
(* a poll or is restarted (SpecCrash): no step on the same date raises the *)
(* count of a side effect that is already counted.                         *)
(***************************************************************************)
C2_NoRefireAfterRestart ==
  [][\A s \in Services :
       (fired[s] >= 1 /\ today' = today) => fired'[s] <= fired[s]]_vars

(***************************************************************************)
(* C3.  The guard store's contract.  A guard test of key k takes the       *)
(* "already done" branch iff the record of k is today's date (a missing    *)
(* record is not); the write of key k leaves exactly k with today's date,  *)
(* whatever was there, and the other keys as they were; and nothing but a  *)
(* guard write changes the store.                                          *)
(***************************************************************************)
C3_GuardContract ==
  [][\A p \in Procs :
       /\ \A k \in Keys :
            /\ (Moves(p) /\ Reads(p, k)) =>
                 ((pc'[p] # CallSite(k)) <=> (today \in Record(k)))
            /\ (Moves(p) /\ pc[p] = WriteSite(k)) =>
                 /\ DOMAIN db' = (DOMAIN db) \cup {k}
                 /\ db'[k] = today
                 /\ \A j \in (DOMAIN db) \ {k} : db'[j] = db[j]
       /\ (db' # db) => \E q \in Procs, k \in Keys : Moves(q) /\ pc[q] = WriteSite(k)]_vars

\* A guard write is about to overwrite a stale record: the test found the key
\* present with an earlier date, and the side effect has been issued.
C3_Witness ==
  \E k \in Keys : /\ pc[1] = WriteSite(k)
                  /\ k \in DOMAIN db
                  /\ db[k] < today

(***************************************************************************)
(* C4.  Each guard is a two-state machine per day.  The write of key k     *)
(* makes _db_is_today(k) true; while the date stays the same a key that    *)
(* reads as done keeps reading as done, whatever the polls do; and when    *)
(* the date advances every key reads as pending, with no reset step.       *)
(***************************************************************************)
C4_TwoStatePerDay ==
  [][\A k \in Keys :
       /\ (\E p \in Procs : Moves(p) /\ pc[p] = WriteSite(k)) =>
            db_is_today(db', k, today')
       /\ (db_is_today(db, k, today) /\ today' = today) =>
            db_is_today(db', k, today')
       /\ (today' # today) => (~db_is_today(db', k, today') /\ db' = db)]_vars

\* The date has advanced over a key that was done the day before: it is
\* pending again although its record is still there.
C4_Witness ==
  \E k \in Keys : /\ k \in DOMAIN db
                  /\ db[k] = today - 1
                  /\ today = 2
                  /\ \E j \in Keys : db_is_today(db, j, today)

(***************************************************************************)
(* The classifier's result, as the poll holds it right after               *)
(* _get_rental_events has returned.                                        *)
(***************************************************************************)
Classified(p) == pc[p] = "reset_checkin_time"
Slot(p, i) == frame[p].events[i]
StartsToday(p, i) == Slot(p, i).start_date = frame[p].today
Started(p, i) == Slot(p, i).start_date <= frame[p].today
EndsToday(p, i) == Slot(p, i).end_date = frame[p].today

(***************************************************************************)
(* C5.  checkin_today is the later slot events[1] whenever that slot       *)
(* starts today (also when both slots start today), the earlier slot       *)
(* events[0] when only that one starts today, and none when neither does.  *)
(***************************************************************************)
C5_CheckinToday ==
  \A p \in Procs : Classified(p) =>
    LET got == frame[p].rental_events.checkin_today_evt IN
    /\ StartsToday(p, 1) => got = Slot(p, 1).name
    /\ (StartsToday(p, 0) /\ ~StartsToday(p, 1)) => got = Slot(p, 0).name
    /\ (~StartsToday(p, 0) /\ ~StartsToday(p, 1)) => got = None

\* Both slots start today and the later one was chosen.
C5_Witness ==
  /\ Classified(1)
  /\ StartsToday(1, 0) /\ StartsToday(1, 1)
  /\ frame[1].rental_events.checkin_today_evt = EventName(1)

(***************************************************************************)
(* C6.  checkin_active is events[1] whenever that slot has started (on or  *)
(* before today), events[0] when only that one has started, and none       *)
(* otherwise; the end dates do not enter: a slot that ended before today   *)
(* is still reported.                                                      *)
(***************************************************************************)
C6_CheckinActive ==
  \A p \in Procs : Classified(p) =>
    LET got == frame[p].rental_events.checkin_active_evt IN
    /\ Started(p, 1) => got = Slot(p, 1).name
    /\ (Started(p, 0) /\ ~Started(p, 1)) => got = Slot(p, 0).name
    /\ (~Started(p, 0) /\ ~Started(p, 1)) => got = None

\* The later slot has not started, the earlier one started and ended before
\* today, and the earlier one is reported as the active check-in.
C6_Witness ==
  /\ Classified(1)
  /\ ~Started(1, 1)
  /\ Slot(1, 0).end_date < frame[1].today
  /\ frame[1].rental_events.checkin_active_evt = EventName(0)

(***************************************************************************)
(* C7.  checkout_today is events[0] exactly when events[0] ends today and  *)
(* none otherwise; events[1] is never reported, whatever its end date.     *)
(***************************************************************************)
C7_CheckoutToday ==
  \A p \in Procs : Classified(p) =>
    LET got == frame[p].rental_events.checkout_today_evt IN
    /\ EndsToday(p, 0) => got = Slot(p, 0).name
    /\ ~EndsToday(p, 0) => got = None
    /\ got # Slot(p, 1).name

\* The later slot ends today, the earlier one does not, and no checkout is
\* reported.
C7_Witness ==
  /\ Classified(1)
  /\ EndsToday(1, 1) /\ ~EndsToday(1, 0)
  /\ frame[1].rental_events.checkout_today_evt = None

(***************************************************************************)
(* More of what the properties speak of.                                   *)
(***************************************************************************)
\* How often poll p has issued side effect s so far.
Calls(p, s) == Cardinality({i \in 1..Len(log[p]) : log[p][i] = <<"call", s>>})

\* The current time of day, in seconds, is past the time of day t.
Past(t) ==
  LET n == SampleTimes[now] IN
  n.hour * 3600 + n.minute * 60 + n.second > t.hour * 3600 + t.minute * 60 + t.second

\* Key k is marked done today, in the current and in the next state.
Done(k) == \E x \in DOMAIN db : x = k /\ db[x] = today
DoneNext(k) == \E x \in DOMAIN db' : x = k /\ db'[x] = today'

\* The record of key k changes in this step.
Rewritten(k) ==
  \/ (k \in DOMAIN db) # (k \in DOMAIN db')
  \/ k \in DOMAIN db /\ k \in DOMAIN db' /\ db'[k] # db[k]

(***************************************************************************)
(* C8.  The cleaner check, where every service call returns.  It is        *)
(* entered only on a check-in day, past the cleaner-check time, with the   *)
(* guard not done today.  With both timestamps found: a guest unlock       *)
(* strictly later than the cleaner unlock sends the page and the SMS, once *)
(* each, before the guard is written; an equal or earlier one sends        *)
(* neither and logs OK.  Either way the next step of the poll marks the    *)
(* guard done, and while it is done today no notification is sent, however *)
(* many polls follow.                                                      *)
(***************************************************************************)
C8_CleanerAlert ==
  /\ [](\A p \in Procs :
          LET ut == frame[p].unlock_times IN
          /\ pc[p] \in {"notify_page", "notify_sms"} => ut.guest_unlock > ut.cleaner_unlock
          /\ pc[p] = "cleaner_set" =>
               /\ ut.guest_unlock # NoStamp /\ ut.cleaner_unlock # NoStamp
               /\ ut.guest_unlock > ut.cleaner_unlock =>
                    Calls(p, "notify/page") = 1 /\ Calls(p, "notify/sms") = 1
               /\ ut.guest_unlock <= ut.cleaner_unlock =>
                    /\ Calls(p, "notify/page") = 0 /\ Calls(p, "notify/sms") = 0
                    /\ \E i \in 1..Len(log[p]) : log[p][i] = <<"log", "OK">>)
  /\ [][/\ \A p \in Procs :
            /\ (Moves(p) /\ pc'[p] = "get_last_unlocks") =>
                 /\ frame[p].rental_events.checkin_today_evt # None
                 /\ Past(cleaner_check_time)
                 /\ ~Done("last_cleaner_check")
            /\ (Moves(p) /\ pc[p] = "cleaner_set") => DoneNext("last_cleaner_check")
        /\ (Done("last_cleaner_check") /\ today' = today) =>
             /\ fired'["notify/page"] = fired["notify/page"]
             /\ fired'["notify/sms"] = fired["notify/sms"]]_vars

\* The guest and the cleaner unlocked at the same instant: no notification
\* was sent and the guard is about to be marked.
C8_Witness ==
  /\ pc[1] = "cleaner_set"
  /\ frame[1].unlock_times.guest_unlock = frame[1].unlock_times.cleaner_unlock
  /\ fired["notify/page"] = 0

(***************************************************************************)
(* C9.  The pre-cool decision, where every service call returns.  With d   *)
(* the hour difference times 60 plus the minute difference between the     *)
(* check-in time read and the current time: the poll goes on to            *)
(* climate/set_temperature iff d < 30 and last_hvac_on is not done today   *)
(* (so not at d = 30, and at every d <= 29, negative ones included, in     *)
(* every poll until the guard is done); set_temperature is issued only     *)
(* there, and the guard is written by the step after it and only by it.    *)
(***************************************************************************)
C9_Minutes(p) ==
  (frame[p].checkin_time.hour - SampleTimes[now].hour) * 60
    + (frame[p].checkin_time.minute - SampleTimes[now].minute)

C9_PrecoolBoundary ==
  [][/\ \A p \in Procs :
          /\ (Moves(p) /\ pc[p] = "hvac_on_if") =>
               ((pc'[p] = "hvac_on_call") <=>
                  (C9_Minutes(p) < 30 /\ ~Done("last_hvac_on")))
          /\ (Moves(p) /\ pc'[p] = "hvac_on_call") => pc[p] = "hvac_on_if"
          /\ (Moves(p) /\ pc[p] = "hvac_on_call") =>
               (Fires("climate/set_temperature") /\ pc'[p] = "hvac_on_set")
          /\ (Moves(p) /\ pc[p] = "hvac_on_set") => DoneNext("last_hvac_on")
     /\ fired'["climate/set_temperature"] > fired["climate/set_temperature"] =>
           \E p \in Procs : Moves(p) /\ pc[p] = "hvac_on_call"
     /\ Rewritten("last_hvac_on") =>
           \E p \in Procs : Moves(p) /\ pc[p] = "hvac_on_set"]_vars

\* The check-in time has passed (d is negative), the guard was not done, and
\* the poll is about to set the temperature.
C9_Witness ==
  /\ pc[1] = "hvac_on_call"
  /\ C9_Minutes(1) < 0
  /\ fired["climate/set_temperature"] = 0

(***************************************************************************)
(* C10.  The checkout action, where every service call returns.  A poll    *)
(* reaches hvac_off iff its classification has checkout_today set; there   *)
(* it goes on to climate/turn_off iff the time of day is past the checkout *)
(* time and last_hvac_off is not done today; turn_off is issued only       *)
(* there, the guard is written by the step after it, and neither the call  *)
(* nor the write happens anywhere else.                                    *)
(***************************************************************************)
C10_HvacOff ==
  [][/\ \A p \in Procs :
          /\ (Moves(p) /\ pc[p] \in {"reset_checkin_time", "reset_set"}
                /\ pc'[p] # "reset_call") =>
               ((pc'[p] = "hvac_off") <=>
                  (frame[p].rental_events.checkout_today_evt # None))
          /\ (Moves(p) /\ pc'[p] = "hvac_off") =>
               pc[p] \in {"reset_checkin_time", "reset_set"}
          /\ (Moves(p) /\ pc[p] = "hvac_off") =>
               ((pc'[p] = "hvac_off_call") <=>
                  (Past(checkout_time) /\ ~Done("last_hvac_off")))
          /\ (Moves(p) /\ pc'[p] = "hvac_off_call") => pc[p] = "hvac_off"
          /\ (Moves(p) /\ pc[p] = "hvac_off_call") =>
               (Fires("climate/turn_off") /\ pc'[p] = "hvac_off_set")
          /\ (Moves(p) /\ pc[p] = "hvac_off_set") => DoneNext("last_hvac_off")
     /\ fired'["climate/turn_off"] > fired["climate/turn_off"] =>
           \E p \in Procs : Moves(p) /\ pc[p] = "hvac_off_call"
     /\ Rewritten("last_hvac_off") =>
           \E p \in Procs : Moves(p) /\ pc[p] = "hvac_off_set"]_vars

\* climate/turn_off has been issued once today and the guard is marked done.
C10_Witness ==
  /\ fired["climate/turn_off"] = 1
  /\ Done("last_hvac_off")
  /\ pc[1] = "idle"

\* The step of check_mgmt a log entry belongs to: 0 _get_rental_events,
\* 1 reset_checkin_time, 2 hvac_off, 3 cleaner_alert, 4 hvac_on.
StepOfKey(k) == CASE k = "last_checkin_reset" -> 1
                  [] k = "last_hvac_off" -> 2
                  [] k = "last_cleaner_check" -> 3
                  [] k = "last_hvac_on" -> 4
StepOfService(s) == CASE s = "input_datetime/set_datetime" -> 1
                      [] s = "climate/turn_off" -> 2
                      [] s \in {"notify/page", "notify/sms"} -> 3
                      [] s = "climate/set_temperature" -> 4
StepOf(e) == CASE e[1] = "get_state" -> 0
               [] e[1] \in {"read", "write"} -> StepOfKey(e[2])
               [] e[1] = "call" -> StepOfService(e[2])
               [] OTHER -> 3

(***************************************************************************)
(* C11.  Within a poll the steps run in one order: reset_checkin_time,     *)
(* hvac_off, cleaner_alert, hvac_on.  Of any two guard tests, service      *)
(* calls, log lines or guard writes of one poll, the later one never       *)
(* belongs to an earlier step than the earlier one.                        *)
(***************************************************************************)
C11_FixedOrder ==
  \A p \in Procs : \A i, j \in 1..Len(log[p]) :
    i < j => StepOf(log[p][i]) <= StepOf(log[p][j])

\* One poll has reset the check-in time, turned the HVAC off, paged the
\* cleaner alert and pre-cooled.
C11_Witness ==
  /\ Calls(1, "input_datetime/set_datetime") = 1
  /\ Calls(1, "climate/turn_off") = 1
  /\ Calls(1, "notify/sms") = 1
  /\ Calls(1, "climate/set_temperature") = 1

LogsError(p) ==
  log'[p] = Append(log[p], <<"error", "Could not determine last unlock times">>)

(***************************************************************************)
(* C13.  When the history holds no cleaner entry or no guest entry,        *)
(* cleaner_alert logs an error and the poll goes on: the step that logs    *)
(* the error raises nothing and leaves the poll running towards hvac_on.   *)
(***************************************************************************)
C13_ContinuesAfterMissingUnlock ==
  [][\A p \in Procs : LogsError(p) => raised'[p] = None /\ pc'[p] # "idle"]_vars

\* Poll p reads a missing or malformed calendar state in this step.
ReadsUnreadable(p) == log'[p] = Append(log[p], Unreadable)

(***************************************************************************)
(* C14.  A poll that reads a missing or malformed calendar state ends at   *)
(* that read with an exception: the step issues no side effect and writes  *)
(* no guard record, nothing else is tested, called, logged or written in   *)
(* that poll, and the poll is over, so that the next interval starts a new *)
(* poll against the unchanged guard store.                                 *)
(***************************************************************************)
C14_AbortAtRead ==
  [][\A p \in Procs :
       /\ ReadsUnreadable(p)
            => /\ pc[p] = "get_rental_events"
               /\ raised'[p] \in {"AssertionError", "ValueError"}
               /\ db' = db /\ fired' = fired /\ checkin_input' = checkin_input
       /\ (\E i \in 1..Len(log'[p]) : log'[p][i] = Unreadable)
            => log'[p] = <<Unreadable>> /\ pc'[p] = "idle"]_vars

\* A poll of the second day has ended at the read of a malformed state and
\* has not reset the check-in time, which is still to be done that day.
C14_Witness ==
  /\ today > 1
  /\ pc[1] = "idle" /\ raised[1] = "ValueError" /\ log[1] = <<Unreadable>>
  /\ ~Done("last_checkin_reset")
  /\ fired["input_datetime/set_datetime"] = 0

\* The guard key of the method that holds call site `site`.
KeyOfSite(site) == CASE site = "reset_call" -> "last_checkin_reset"
                     [] site = "hvac_off_call" -> "last_hvac_off"
                     [] site \in {"notify_page", "notify_sms"} -> "last_cleaner_check"
                     [] site = "hvac_on_call" -> "last_hvac_on"

\* A call of poll p raises in this step, and the call site that raises.
Fails(p) ==
  /\ Len(log'[p]) = Len(log[p]) + 1
  /\ log'[p][Len(log'[p])][1] = "failed"
FailedSite(p) == log'[p][Len(log'[p])][2]

\* The positions in the log of poll p at which a call raised.
Failures(p) == {i \in 1..Len(log[p]) : log[p][i][1] = "failed"}

(***************************************************************************)
(* C15.  A service call that raises ends the poll: the exception leaves    *)
(* check_mgmt, the guard key of the failing action is not marked done, the *)
(* guard store and the side-effect counters are unchanged, the failure is  *)
(* the last thing the poll did (no later step, no retry), and the poll is  *)
(* idle, so that the next scheduled callback starts a poll that finds the  *)
(* action still to do.                                                     *)
(***************************************************************************)
C15_FailurePropagates ==
  /\ [][\A p \in Procs :
          Fails(p)
            => /\ pc[p] \in CallSites /\ FailedSite(p) = pc[p]
               /\ pc'[p] = "idle"
               /\ raised'[p] = "ServiceError"
               /\ db' = db /\ fired' = fired
               /\ ~DoneNext(KeyOfSite(pc[p]))]_vars
  /\ [](\A p \in Procs :
          /\ Failures(p) \subseteq {Len(log[p])}
          /\ Failures(p) # {} => pc[p] = "idle" /\ raised[p] = "ServiceError"
          /\ raised[p] = "ServiceError" /\ due => ENABLED PollStart(p))

\* The HVAC-off call of a poll has raised: the poll is over, nothing was
\* turned off and last_hvac_off is not marked.
C15_Witness ==
  /\ pc[1] = "idle" /\ raised[1] = "ServiceError"
  /\ log[1][Len(log[1])] = <<"failed", "hvac_off_call">>
  /\ fired["climate/turn_off"] = 0
  /\ ~Done("last_hvac_off")

(***************************************************************************)
(* C16.  With two polls of the unit in flight at once and every guard read *)
(* and guard write atomic, no side effect is issued twice on one calendar  *)
(* day, whatever the interleaving of the two polls (SpecConc).             *)
(***************************************************************************)
C16_AtMostOnceConcurrent == ~ \E s \in Services : fired[s] >= 2

\* The statement that tests the guard of key k.
ReadSite(k) == CASE k = "last_checkin_reset" -> "reset_checkin_time"
                 [] k = "last_hvac_off" -> "hvac_off"
                 [] k = "last_cleaner_check" -> "cleaner_alert"
                 [] k = "last_hvac_on" -> "hvac_on_if"

\* Poll p writes the record of key k in this step.
Writes(p, k) == log'[p] = Append(log[p], <<"write", k>>)

\* The positions of entry e in a log.
Positions(l, e) == {i \in 1..Len(l) : l[i] = e}

(***************************************************************************)
(* C17.  Within a poll every guarded action touches its own key only: the  *)
(* guard of key k is tested only by the statement of its own action, which *)
(* leaves the store unchanged; the record of key k is written only by the  *)
(* write statement of its own action, which changes no other key; no       *)
(* record changes in any other step; and a poll tests a key at most once,  *)
(* writes it at most once, and only after it has tested it.                *)
(***************************************************************************)
C17_OwnKeyOnly ==
  [][/\ \A p \in Procs : \A k \in Keys :
          /\ Reads(p, k) => pc[p] = ReadSite(k) /\ db' = db
          /\ Writes(p, k)
               => /\ pc[p] = WriteSite(k)
                  /\ DoneNext(k)
                  /\ \A other \in Keys \ {k} : ~Rewritten(other)
          /\ Cardinality(Positions(log'[p], <<"read", k>>)) <= 1
          /\ Cardinality(Positions(log'[p], <<"write", k>>)) <= 1
          /\ \A j \in Positions(log'[p], <<"write", k>>) :
               \E i \in Positions(log'[p], <<"read", k>>) : i < j
     /\ \A k \in Keys : Rewritten(k) => \E p \in Procs : Writes(p, k)]_vars

\* One poll has tested and then written each of the four keys.
C17_Witness ==
  \A k \in Keys :
    /\ Positions(log[1], <<"read", k>>) # {}
    /\ Positions(log[1], <<"write", k>>) # {}

\* The last poll of p was a poll of a check-in day that got to cleaner_alert
\* after cleaner_check_time.
CheckinPoll(p) == Positions(log[p], <<"read", "last_cleaner_check">>) # {}

\* Pre-cooling is due whatever the check-in input holds.
PrecoolDue ==
  \A t \in CheckinChoices : sub_time(t, SampleTimes[now]) < PrecoolMinutes

(***************************************************************************)
(* C18.  On a check-in day with a readable calendar and service calls that *)
(* return, a poll that runs when the check-in time is less than 30 minutes *)
(* away leaves the HVAC pre-cooled, whatever the door-lock history holds:  *)
(* once such a poll, begun and ended at the current time, is over,         *)
(* last_hvac_on is marked done today.                                      *)
(***************************************************************************)
C18_PrecoolFires ==
  \A p \in Procs :
    pc[p] = "idle" /\ ~due /\ CheckinPoll(p) /\ PrecoolDue
      => Done("last_hvac_on")

(***************************************************************************)
(* C19.  On a same-day turnover climate/turn_off is never issued after     *)
(* climate/set_temperature has been issued that day: a poll that has       *)
(* classified both a checkout today and a check-in today issues turn_off   *)
(* only while set_temperature has not been issued on the current day.      *)
(***************************************************************************)
C19_NoTurnOffAfterPrecool ==
  [][\A p \in Procs :
       /\ Moves(p) /\ pc[p] = "hvac_off_call"
       /\ frame[p].rental_events.checkout_today_evt # None
       /\ frame[p].rental_events.checkin_today_evt # None
       /\ today' = today
       => fired["climate/set_temperature"] = 0]_vars

(***************************************************************************)
(* C20.  Every guard record a poll writes carries the date the poll        *)
(* classified the events with: the write statement of key k stores the     *)
(* poll's own `today`, also when the date has advanced since.              *)
(***************************************************************************)
C20_RecordCarriesPollDate ==
  [][\A p \in Procs : \A k \in Keys :
       Writes(p, k) => k \in DOMAIN db' /\ db'[k] = frame[p].today]_vars

=============================================================================
